---- MODULE Spec2Model ----
(***************************************************************************)
(* Model of certbot_apache/augeasparser.py: the Augeas implementation of   *)
(* the ParserNode interfaces (AugeasCommentNode, AugeasDirectiveNode,      *)
(* AugeasBlockNode) over a path-addressed configuration tree.              *)
(*                                                                         *)
(* Strings whose characters matter (labels, names, values) are sequences   *)
(* of one-character strings, so that lower(), `in`, partition() and the    *)
(* case-insensitive match are computed character by character.  An Augeas  *)
(* path "/files/a/b[2]" is the sequence of its steps                       *)
(* <<[label |-> a, idx |-> 1], [label |-> b, idx |-> 2]>>; as in the       *)
(* module docstring (lines 26-34, 60-65) every step of a path that match() *)
(* returns carries its index.                                              *)
(***************************************************************************)
EXTENDS Integers, Sequences, FiniteSets, TLC

VARIABLES aug, handles, calls, ret, steps, anchored

vars == <<aug, handles, calls, ret, steps, anchored>>

-----------------------------------------------------------------------------
(* Bounds of the model *)

\* longest parameter list passed to set_parameters / add_child_block
MaxParams == 2
\* largest explicit position passed to add_child_block
MaxPos == 2
\* number of operations in one behaviour
MaxSteps == 2

-----------------------------------------------------------------------------
(* Characters and strings *)

\* str.lower() on one character
Lower(c) ==
    CASE c = "B" -> "b" [] c = "L" -> "l" [] c = "O" -> "o" [] c = "C" -> "c"
      [] c = "K" -> "k" [] c = "I" -> "i" [] c = "M" -> "m" [] c = "S" -> "s"
      [] OTHER -> c

\* str.lower()
LowerStr(s) == [i \in 1..Len(s) |-> Lower(s[i])]

\* needle in hay (substring test)
Contains(hay, needle) ==
    \E i \in 0..(Len(hay) - Len(needle)) : SubSeq(hay, i + 1, i + Len(needle)) = needle

\* s.startswith(p)
StartsWith(s, p) == Len(s) >= Len(p) /\ SubSeq(s, 1, Len(p)) = p

\* the decimal digits of a sibling index, as characters
IdxStr(n) ==
    CASE n = 1 -> <<"1">> [] n = 2 -> <<"2">> [] n = 3 -> <<"3">> [] n = 4 -> <<"4">>
      [] n = 5 -> <<"5">> [] n = 6 -> <<"6">> [] n = 7 -> <<"7">> [] n = 8 -> <<"8">>
      [] OTHER -> <<"9">>

LastOf(s) == s[Len(s)]

FrontOf(s) == SubSeq(s, 1, Len(s) - 1)

\* labels of the engine tree
ArgLabel == <<"a", "r", "g">>
DirectiveLabel == <<"d", "i", "r", "e", "c", "t", "i", "v", "e">>
CommentLabel == <<"#", "c", "o", "m", "m", "e", "n", "t">>
Star == <<"*">>

\* assertions.PASS, the placeholder value
PASS == <<"P", "A", "S", "S">>
\* the placeholder where a path is expected
PassPath == <<[label |-> PASS, idx |-> 0]>>
\* a position that was not given (position=None); a given position p is <<p>>
None == <<>>

-----------------------------------------------------------------------------
(* The path-tree engine (Augeas): get / set / remove / insert / match *)

Node(label, value, kids) == [label |-> label, value |-> value, kids |-> kids]

Step(label, idx) == [label |-> label, idx |-> idx]

\* the 1-based index of kid k among the siblings that share its label
IndexOf(kids, k) == Cardinality({j \in 1..k : kids[j].label = kids[k].label})

KidPath(path, kids, k) == Append(path, Step(kids[k].label, IndexOf(kids, k)))

\* the kid a step selects, 0 when it selects none; *[last()] is Step(Star, 0)
StepPos(kids, step) ==
    IF step.label = Star
    THEN IF step.idx = 0 THEN Len(kids)
         ELSE IF step.idx \in 1..Len(kids) THEN step.idx ELSE 0
    ELSE LET S == {k \in 1..Len(kids) :
                     kids[k].label = step.label /\ IndexOf(kids, k) = step.idx}
         IN  IF S = {} THEN 0 ELSE CHOOSE k \in S : TRUE

NoMatch == <<0>>

RECURSIVE Locate(_, _)
\* the kid positions leading from t to the node a path selects, NoMatch for none
Locate(t, path) ==
    IF path = <<>> THEN <<>>
    ELSE LET k == StepPos(t.kids, Head(path)) IN
         IF k = 0 THEN NoMatch
         ELSE LET rest == Locate(t.kids[k], Tail(path)) IN
              IF rest = NoMatch THEN NoMatch ELSE <<k>> \o rest

Exists(t, path) == Locate(t, path) # NoMatch

RECURSIVE NodeAt(_, _)
NodeAt(t, loc) == IF loc = <<>> THEN t ELSE NodeAt(t.kids[Head(loc)], Tail(loc))

RECURSIVE ReplaceAt(_, _, _)
ReplaceAt(t, loc, n) ==
    IF loc = <<>> THEN n
    ELSE [t EXCEPT !.kids[Head(loc)] = ReplaceAt(@, Tail(loc), n)]

\* aug.get(path)
AugGet(t, path) ==
    IF Exists(t, path) THEN NodeAt(t, Locate(t, path)).value ELSE <<>>

\* aug.set(path, value): sets the node's value, creating the node as the last
\* child of its parent when the path selects none
AugSet(t, path, value) ==
    IF Exists(t, path)
    THEN LET loc == Locate(t, path) IN
         ReplaceAt(t, loc, [NodeAt(t, loc) EXCEPT !.value = value])
    ELSE IF path # <<>> /\ Exists(t, FrontOf(path))
    THEN LET ploc == Locate(t, FrontOf(path))
             p == NodeAt(t, ploc)
         IN  ReplaceAt(t, ploc,
                 [p EXCEPT !.kids = Append(@, Node(LastOf(path).label, value, <<>>))])
    ELSE t

\* aug.remove(path): removes the node and its subtree; later siblings of the
\* same label are renumbered (indices are positions, not stored)
AugRemove(t, path) ==
    IF path # <<>> /\ Exists(t, path)
    THEN LET loc == Locate(t, path)
             ploc == FrontOf(loc)
             k == LastOf(loc)
             p == NodeAt(t, ploc)
         IN  ReplaceAt(t, ploc,
                 [p EXCEPT !.kids = SubSeq(@, 1, k - 1) \o SubSeq(@, k + 1, Len(@))])
    ELSE t

\* whether aug.insert(anchor, ...) fails: the anchor selects no node
InsertFails(t, anchor) == anchor = <<>> \/ ~Exists(t, anchor)

\* aug.insert(anchor, label, before): a new empty sibling before/after the anchor
AugInsert(t, anchor, label, before) ==
    LET loc == Locate(t, anchor)
        ploc == FrontOf(loc)
        k == LastOf(loc)
        p == NodeAt(t, ploc)
        cut == IF before THEN k - 1 ELSE k
    IN  ReplaceAt(t, ploc,
            [p EXCEPT !.kids = SubSeq(@, 1, cut) \o <<Node(label, <<>>, <<>>)>>
                                 \o SubSeq(@, cut + 1, Len(@))])

\* aug.match(path + "/*"): the children, in engine order
AugMatchStar(t, path) ==
    IF Exists(t, path)
    THEN LET kids == NodeAt(t, Locate(t, path)).kids IN
         [k \in 1..Len(kids) |-> KidPath(path, kids, k)]
    ELSE <<>>

\* aug.match(path + "/" + label)
AugMatchLabel(t, path, label) ==
    SelectSeq(AugMatchStar(t, path), LAMBDA p : LastOf(p).label = label)

RECURSIVE Descend(_, _, _)
\* the descendants of node n (at `path`), from kid k on, in document order
Descend(n, path, k) ==
    IF k > Len(n.kids) THEN <<>>
    ELSE LET kp == KidPath(path, n.kids, k) IN
         <<kp>> \o Descend(n.kids[k], kp, 1) \o Descend(n, path, k + 1)

\* aug.match(path + "//*")
AugMatchDescendants(t, path) ==
    IF Exists(t, path) THEN Descend(NodeAt(t, Locate(t, path)), path, 1) ELSE <<>>

\* label() =~ regexp(case_i(name)): every letter in either case; an engine
\* whose regexp match is not anchored also accepts labels that contain it
RegexpMatch(label, name, anch) ==
    IF anch THEN LowerStr(label) = LowerStr(name)
    ELSE Contains(LowerStr(label), LowerStr(name))

\* aug.match("/files%s//*[label()=~regexp('%s')]" % (root, case_i(name)))
AugMatchRegexp(t, root, name, anch) ==
    SelectSeq(AugMatchDescendants(t, root),
              LAMBDA p : RegexpMatch(LastOf(p).label, name, anch))

-----------------------------------------------------------------------------
(* The parser session *)

\* parser.get_arg(path): the value the engine holds at the path
GetArg(t, path) == AugGet(t, path)

\* parser.parser_paths, in iteration order: the registered roots.  The
\* second lies inside the first, as /etc/apache2/sites does in /etc/apache2
ParserPaths ==
    << <<Step(<<"e", "t", "c">>, 1)>>,
       <<Step(<<"e", "t", "c">>, 1), Step(<<"a", "r", "g", "u", "s">>, 1)>> >>

IfModuleLower == <<"i", "f", "m", "o", "d", "u", "l", "e">>

\* the session's exclusion predicate: no module is loaded, so whatever lies
\* inside an <IfModule> block is not part of the loaded configuration
Excluded(path) ==
    \E i \in 1..(Len(path) - 1) : LowerStr(path[i].label) = IfModuleLower

\* parser.exclude_dirs(paths), on a list
ExcludeDirs(paths) == SelectSeq(paths, LAMBDA p : ~Excluded(p))

FileLabel == <<"c", "o", "n", "f">>

\* apache_util.get_file_path(path): the part of the path that names the file
GetFilePath(path) ==
    LET S == {i \in 1..Len(path) : path[i].label = FileLabel} IN
    IF S = {} THEN <<>>
    ELSE SubSeq(path, 1, CHOOSE i \in S : \A j \in S : i <= j)

RECURSIVE Flatten(_)
Flatten(ss) == IF ss = <<>> THEN <<>> ELSE Head(ss) \o Flatten(Tail(ss))

\* parser.find_dir(name, start=start, exclude=exclude): one hit per parameter
\* of every directive below start whose name is `name` in any casing
FindDir(t, name, start, exclude) ==
    LET all == SelectSeq(AugMatchDescendants(t, start),
                   LAMBDA p : /\ LastOf(p).label = DirectiveLabel
                              /\ LowerStr(AugGet(t, p)) = LowerStr(name))
        dirs == IF exclude THEN ExcludeDirs(all) ELSE all
    IN  Flatten([i \in 1..Len(dirs) |-> AugMatchLabel(t, dirs[i], ArgLabel)])

\* parser.find_comments(comment, start=start): the comments below start whose
\* text contains `comment`
SessionFindComments(t, comment, start) ==
    SelectSeq(AugMatchDescendants(t, start),
        LAMBDA p : /\ LastOf(p).label = CommentLabel
                   /\ Contains(AugGet(t, p), comment))

-----------------------------------------------------------------------------
(* AugeasParserNode, AugeasCommentNode, AugeasDirectiveNode *)

Metadata(path) == [augeasparser |-> "parser", augeaspath |-> path]

\* AugeasCommentNode(comment=, ancestor=, filepath=, metadata=)
AugeasCommentNode(comment, ancestor, filepath, metadata) ==
    [kind |-> "comment", comment |-> comment, ancestor |-> ancestor,
     filepath |-> filepath, dirty |-> FALSE, metadata |-> metadata]

\* AugeasDirectiveNode(name=, ancestor=, filepath=, metadata=); its parameters
\* are applied to the engine by the caller of the constructor (see InitParams)
AugeasDirectiveNode(name, ancestor, filepath, metadata) ==
    [kind |-> "directive", name |-> name, enabled |-> TRUE, ancestor |-> ancestor,
     filepath |-> filepath, dirty |-> FALSE, metadata |-> metadata]

\* AugeasBlockNode(...): a directive node with an empty children buffer
AugeasBlockNode(name, ancestor, filepath, metadata) ==
    [kind |-> "block", name |-> name, enabled |-> TRUE, ancestor |-> ancestor,
     filepath |-> filepath, dirty |-> FALSE, metadata |-> metadata,
     children |-> <<>>]

\* _aug_get_params that resolves path/arg, the first parameter, for every one
AugGetParamsFirst(t, path) ==
    LET arg_paths == AugMatchLabel(t, path, ArgLabel) IN
    [i \in 1..Len(arg_paths) |-> GetArg(t, arg_paths[1])]

\* _aug_get_params(path)
AugGetParams(t, path) ==
    LET arg_paths == AugMatchLabel(t, path, ArgLabel) IN
    [i \in 1..Len(arg_paths) |-> GetArg(t, arg_paths[i])]

\* the `parameters` property
Parameters(t, node) == AugGetParams(t, node.metadata.augeaspath)

RECURSIVE ClearParams(_, _, _)
\* "for _ in orig_params: aug.remove(path/arg[1])"
ClearParams(t, path, n) ==
    IF n = 0 THEN t
    ELSE ClearParams(AugRemove(t, Append(path, Step(ArgLabel, 1))), path, n - 1)

RECURSIVE InsertParams(_, _, _, _)
\* "for pi, param in enumerate(parameters): aug.set(path/arg[pi+1], param)"
InsertParams(t, path, parameters, pi) ==
    IF pi >= Len(parameters) THEN t
    ELSE InsertParams(AugSet(t, Append(path, Step(ArgLabel, pi + 1)), parameters[pi + 1]),
                      path, parameters, pi + 1)

\* set_parameters that writes the new parameters over the old ones without
\* clearing them first
SetParametersAtNoClear(t, path, parameters) == InsertParams(t, path, parameters, 0)

\* set_parameters(parameters) on the node bound to `path`
SetParametersAt(t, path, parameters) ==
    LET orig_params == AugGetParams(t, path) IN
    InsertParams(ClearParams(t, path, Len(orig_params)), path, parameters, 0)

\* AugeasDirectiveNode.__init__: "if parameters: self.set_parameters(parameters)"
InitParams(t, path, parameters) ==
    IF parameters # <<>> THEN SetParametersAt(t, path, parameters) ELSE t

\* AugeasDirectiveNode.__eq__
DirectiveEq(t, a, b) ==
    /\ a.kind = b.kind
    /\ a.name = b.name
    /\ a.filepath = b.filepath
    /\ Parameters(t, a) = Parameters(t, b)
    /\ a.enabled = b.enabled
    /\ a.dirty = b.dirty
    /\ a.ancestor = b.ancestor
    /\ a.metadata = b.metadata

\* AugeasBlockNode.__eq__
BlockEq(t, a, b) ==
    /\ a.kind = b.kind
    /\ a.name = b.name
    /\ a.filepath = b.filepath
    /\ Parameters(t, a) = Parameters(t, b)
    /\ a.children = b.children
    /\ a.enabled = b.enabled
    /\ a.dirty = b.dirty
    /\ a.ancestor = b.ancestor
    /\ a.metadata = b.metadata

-----------------------------------------------------------------------------
(* AugeasBlockNode helpers *)

\* _aug_get_name(path): the last segment without its [n]
AugGetName(path) == LastOf(path).label

\* _create_blocknode(path)
CreateBlocknode(path) ==
    AugeasBlockNode(AugGetName(path), PASS, GetFilePath(path), Metadata(path))

\* _create_directivenode(path)
CreateDirectivenode(t, path) ==
    AugeasDirectiveNode(GetArg(t, path), PASS, GetFilePath(path), Metadata(path))

\* _create_commentnode(path)
CreateCommentnode(t, path) ==
    AugeasCommentNode(AugGet(t, path), PASS, GetFilePath(path), Metadata(path))

\* os.path.basename(path): the last segment with its [n]
Basename(path) == LastOf(path).label \o <<"[">> \o IdxStr(LastOf(path).idx) \o <<"]">>

\* the filter without the case folding of the path: name.lower() in basename(path)
BlockFilterCaseSensitive(name, path) == Contains(Basename(path), LowerStr(name))

\* the filter of _aug_find_blocks: name.lower() in basename(path).lower()
BlockFilter(name, path) == Contains(LowerStr(Basename(path)), LowerStr(name))

\* one root's contribution to blk_paths
RootBlocks(t, vhost_path, name, anch) ==
    SelectSeq(AugMatchRegexp(t, vhost_path, name, anch),
              LAMBDA p : BlockFilter(name, p))

RECURSIVE Dedup(_)
\* a list without its repeats, first occurrences kept
Dedup(s) ==
    IF s = <<>> THEN <<>>
    ELSE LET d == Dedup(FrontOf(s)) IN
         IF \E i \in 1..Len(d) : d[i] = LastOf(s) THEN d ELSE Append(d, LastOf(s))

\* what the roots contribute, root after root
AllRootBlocks(t, name, anch) ==
    Flatten([r \in 1..Len(ParserPaths) |-> RootBlocks(t, ParserPaths[r], name, anch)])

\* blk_paths kept as a list: a path found under two roots is held twice
BlkPathsList(t, name, anch) == AllRootBlocks(t, name, anch)

\* blk_paths.update(...) over the roots: blk_paths is a set, so a path found
\* under two roots is held once (listed here by first occurrence)
BlkPaths(t, name, anch) == Dedup(AllRootBlocks(t, name, anch))

\* the orders in which iterating a set may yield its members: Python fixes
\* none.  The model takes every rotation of the listing
Rotate(s, k) == SubSeq(s, k + 1, Len(s)) \o SubSeq(s, 1, k)

SetOrders(s) ==
    IF s = <<>> THEN {<<>>}
    ELSE {Rotate(s, k) : k \in 0..(Len(s) - 1)}

\* _aug_find_blocks(name): the set blk_paths in one of its iteration orders
AugFindBlocks(t, name, anch) == SetOrders(BlkPaths(t, name, anch))

\* find_blocks(name, exclude) given the iteration of blk_paths
FindBlocksFrom(paths, exclude) ==
    LET kept == IF exclude THEN ExcludeDirs(paths) ELSE paths IN
    [i \in 1..Len(kept) |-> CreateBlocknode(kept[i])]

\* directive.partition("/arg")[0]: the text before the first "/arg"
PartitionArg(path) ==
    LET S == {i \in 1..Len(path) : StartsWith(path[i].label, ArgLabel)} IN
    IF S = {} THEN path
    ELSE SubSeq(path, 1, (CHOOSE i \in S : \A j \in S : i <= j) - 1)

RECURSIVE DirectivePaths(_, _)
\* the loop of find_directives: strip, skip what already_parsed holds
DirectivePaths(hits, already_parsed) ==
    IF hits = <<>> THEN <<>>
    ELSE LET directive == PartitionArg(Head(hits)) IN
         IF directive \notin already_parsed
         THEN <<directive>> \o DirectivePaths(Tail(hits), already_parsed \cup {directive})
         ELSE DirectivePaths(Tail(hits), already_parsed)

\* find_directives(name, exclude) given the finder's hits
FindDirectivesFrom(t, hits) ==
    LET ps == DirectivePaths(hits, {}) IN
    [i \in 1..Len(ps) |-> CreateDirectivenode(t, ps[i])]

\* _aug_resolve_child_position that takes `position` for a 0-based engine index
AugResolveChildPositionZeroBased(t, path, name, position) ==
    LET all_children == AugMatchStar(t, path)
        counted == {i \in 1..Len(all_children) :
                      /\ (position = None \/ i - 1 < position[1])
                      /\ AugGetName(all_children[i]) = name}
        resulting_path == Append(path, Step(name, 1 + Cardinality(counted)))
        append == \/ all_children = <<>>
                  \/ position = None
                  \/ position[1] >= Len(all_children)
    IN  IF append
        THEN [insert_path |-> Append(path, Step(Star, 0)),
              resulting_path |-> resulting_path, before |-> FALSE]
        ELSE IF position[1] = 0
        THEN [insert_path |-> all_children[1],
              resulting_path |-> resulting_path, before |-> TRUE]
        ELSE [insert_path |-> Append(path, Step(Star, position[1] + 1)),
              resulting_path |-> resulting_path, before |-> FALSE]

\* _aug_resolve_child_position whose counter walks all the children, whatever
\* the position
AugResolveChildPositionCountAll(t, path, name, position) ==
    LET all_children == AugMatchStar(t, path)
        counted == {i \in 1..Len(all_children) : AugGetName(all_children[i]) = name}
        resulting_path == Append(path, Step(name, 1 + Cardinality(counted)))
        append == \/ all_children = <<>>
                  \/ position = None
                  \/ position[1] >= Len(all_children)
    IN  IF append
        THEN [insert_path |-> Append(path, Step(Star, 0)),
              resulting_path |-> resulting_path, before |-> FALSE]
        ELSE IF position[1] = 0
        THEN [insert_path |-> all_children[1],
              resulting_path |-> resulting_path, before |-> TRUE]
        ELSE [insert_path |-> Append(path, Step(Star, position[1])),
              resulting_path |-> resulting_path, before |-> FALSE]

\* _aug_resolve_child_position(name, position) of the block bound to `path`
AugResolveChildPosition(t, path, name, position) ==
    LET all_children == AugMatchStar(t, path)
        counted == {i \in 1..Len(all_children) :
                      /\ (position = None \/ i - 1 < position[1])
                      /\ AugGetName(all_children[i]) = name}
        counter == 1 + Cardinality(counted)
        resulting_path == Append(path, Step(name, counter))
        append == \/ all_children = <<>>
                  \/ position = None
                  \/ position[1] >= Len(all_children)
    IN  IF append
        THEN [insert_path |-> Append(path, Step(Star, 0)),
              resulting_path |-> resulting_path, before |-> FALSE]
        ELSE IF position[1] = 0
        THEN [insert_path |-> all_children[1],
              resulting_path |-> resulting_path, before |-> TRUE]
        ELSE [insert_path |-> Append(path, Step(Star, position[1])),
              resulting_path |-> resulting_path, before |-> FALSE]

\* add_child_block(name, parameters, position) on the block bound to `path`:
\* the engine tree afterwards (the insert, then the new node's constructor)
AddChildBlockAug(t, path, name, parameters, position) ==
    LET r == AugResolveChildPosition(t, path, name, position) IN
    InitParams(AugInsert(t, r.insert_path, name, r.before), r.resulting_path, parameters)

\* add_child_block that binds the new node to the insert path
AddChildBlockNodeInsertPath(t, path, name, position) ==
    LET insertpath == AugResolveChildPosition(t, path, name, position).insert_path IN
    AugeasBlockNode(name, PASS, GetFilePath(insertpath), Metadata(insertpath))

\* the node add_child_block returns
AddChildBlockNode(t, path, name, position) ==
    LET realpath == AugResolveChildPosition(t, path, name, position).resulting_path IN
    AugeasBlockNode(name, PASS, GetFilePath(realpath), Metadata(realpath))

\* add_child_directive that gives the new node the placeholder ancestor
NewChildDirectivePassAncestor(self) ==
    AugeasDirectiveNode(PASS, PASS, PASS, Metadata(PassPath))

\* the node add_child_directive appends; `self` is the block it is called on
NewChildDirective(self) ==
    AugeasDirectiveNode(PASS, self, PASS, Metadata(PassPath))

\* the node add_child_comment appends
NewChildComment(self) ==
    AugeasCommentNode(PASS, self, PASS, Metadata(PassPath))

-----------------------------------------------------------------------------
(* The configuration the model starts from *)

X == <<"x">>
Y == <<"y">>
Values == {X, Y}

Args(ps) == [i \in 1..Len(ps) |-> Node(ArgLabel, ps[i], <<>>)]

Directive(name, ps) == Node(DirectiveLabel, name, Args(ps))

Block(label, ps, kids) == Node(label, <<>>, Args(ps) \o kids)

EtcPath == <<Step(<<"e", "t", "c">>, 1)>>
ConfPath == Append(EtcPath, Step(FileLabel, 1))
ArgusConfPath == EtcPath \o <<Step(<<"a", "r", "g", "u", "s">>, 1), Step(FileLabel, 1)>>

\* /files/etc/conf:              /files/etc/argus/conf:
\*   Listen x y                    listen x y
\*   # c                           <block> </block>
\*   <Block x> </Block>
\*   <IfModule m> <BLOCK> </BLOCK> </IfModule>
\*   <blocks> </blocks>
InitTree ==
    Node(<<>>, <<>>, <<
      Node(<<"e", "t", "c">>, <<>>, <<
        Node(FileLabel, <<>>, <<
          Directive(<<"L", "i", "s", "t", "e", "n">>, <<X, Y>>),
          Node(CommentLabel, <<"c">>, <<>>),
          Block(<<"B", "l", "o", "c", "k">>, <<X>>, <<>>),
          Block(<<"I", "f", "M", "o", "d", "u", "l", "e">>, <<<<"m">>>>,
                <<Block(<<"B", "L", "O", "C", "K">>, <<>>, <<>>)>>),
          Block(<<"b", "l", "o", "c", "k", "s">>, <<>>, <<>>) >>),
        Node(<<"a", "r", "g", "u", "s">>, <<>>, <<
          Node(FileLabel, <<>>, <<
            Directive(<<"l", "i", "s", "t", "e", "n">>, <<X, Y>>),
            Block(<<"b", "l", "o", "c", "k">>, <<>>, <<>>) >>) >>) >>) >>)

\* the nodes the caller holds: found earlier by find_blocks / find_directives.
\* Two of them may be bound to the same path
InitHandles ==
    { <<CreateBlocknode(ConfPath)>>,
      <<CreateBlocknode(Append(ConfPath, Step(<<"B", "l", "o", "c", "k">>, 1)))>>,
      <<CreateBlocknode(Append(ConfPath, Step(<<"I", "f", "M", "o", "d", "u", "l", "e">>, 1)))>>,
      <<CreateBlocknode(ArgusConfPath)>>,
      <<CreateDirectivenode(InitTree, Append(ArgusConfPath, Step(DirectiveLabel, 1))),
        CreateDirectivenode(InitTree, Append(ArgusConfPath, Step(DirectiveLabel, 1)))>> }

\* the inputs of the operations
Other(v) == IF v = X THEN Y ELSE X

\* the list of n values that starts with v and alternates
Alternating(v, n) == [i \in 1..n |-> IF i % 2 = 1 THEN v ELSE Other(v)]

ParamLists == {Alternating(v, n) : v \in Values, n \in 0..MaxParams}

\* the parameters given to add_child_*: none, or a longest list
AddParams == {<<>>, Alternating(X, MaxParams)}

Positions == {None} \cup {<<p>> : p \in 0..MaxPos}

AddNames == {<<"B", "l", "o", "c", "k">>, <<"b", "l", "o", "c", "k">>}

FindNames == {<<"b", "l", "o", "c", "k">>, <<"B", "L", "O", "C", "K">>}

DirectiveNames == {<<"l", "i", "s", "t", "e", "n">>}

CommentTexts == {<<"c">>}

-----------------------------------------------------------------------------
(* The state machine *)

Init ==
    /\ aug = InitTree
    /\ handles \in InitHandles
    /\ calls = [h \in 1..Len(handles) |-> 0]
    /\ ret = [op |-> "init"]
    /\ steps = 0
    /\ anchored \in BOOLEAN

PathOf(h) == handles[h].metadata.augeaspath

IsBlock(h) == handles[h].kind = "block"

\* node.set_parameters(parameters)
SetParameters(h, parameters) ==
    /\ steps < MaxSteps
    /\ aug' = SetParametersAt(aug, PathOf(h), parameters)
    /\ ret' = [op |-> "set_parameters", h |-> h, parameters |-> parameters,
               path |-> PathOf(h), orig |-> AugGetParams(aug, PathOf(h))]
    /\ steps' = steps + 1
    /\ UNCHANGED <<handles, calls, anchored>>

\* block.add_child_block(name, parameters, position)
AddChildBlock(h, name, parameters, position) ==
    /\ steps < MaxSteps
    /\ IsBlock(h)
    /\ LET r == AugResolveChildPosition(aug, PathOf(h), name, position)
           info == [h |-> h, name |-> name, parameters |-> parameters,
                    position |-> position, path |-> PathOf(h),
                    insert_path |-> r.insert_path, resulting_path |-> r.resulting_path,
                    before |-> r.before,
                    prekids |-> NodeAt(aug, Locate(aug, PathOf(h))).kids]
       IN  IF InsertFails(aug, r.insert_path)
           THEN /\ aug' = aug
                /\ ret' = [op |-> "add_child_block", failed |-> TRUE] @@ info
           ELSE /\ aug' = AddChildBlockAug(aug, PathOf(h), name, parameters, position)
                /\ ret' = [op |-> "add_child_block", failed |-> FALSE,
                           node |-> AddChildBlockNode(aug, PathOf(h), name, position)]
                          @@ info
    /\ steps' = steps + 1
    /\ UNCHANGED <<handles, calls, anchored>>

\* block.add_child_directive(name, parameters, position)
AddChildDirective(h, name, parameters, position) ==
    /\ steps < MaxSteps
    /\ IsBlock(h)
    /\ aug' = InitParams(aug, PassPath, <<>>)
    /\ handles' = [handles EXCEPT ![h].children = Append(@, NewChildDirective(<<h>>))]
    /\ calls' = [calls EXCEPT ![h] = @ + 1]
    /\ ret' = [op |-> "add_child_directive", h |-> h, node |-> NewChildDirective(<<h>>)]
    /\ steps' = steps + 1
    /\ UNCHANGED anchored

\* block.add_child_comment(comment, position)
AddChildComment(h, comment, position) ==
    /\ steps < MaxSteps
    /\ IsBlock(h)
    /\ handles' = [handles EXCEPT ![h].children = Append(@, NewChildComment(<<h>>))]
    /\ calls' = [calls EXCEPT ![h] = @ + 1]
    /\ ret' = [op |-> "add_child_comment", h |-> h, node |-> NewChildComment(<<h>>)]
    /\ steps' = steps + 1
    /\ UNCHANGED <<aug, anchored>>

\* block.find_blocks(name, exclude)
FindBlocks(h, name, exclude) ==
    /\ steps < MaxSteps
    /\ IsBlock(h)
    /\ \E paths \in AugFindBlocks(aug, name, anchored) :
          ret' = [op |-> "find_blocks", h |-> h, name |-> name, exclude |-> exclude,
                  nodes |-> FindBlocksFrom(paths, exclude)]
    /\ steps' = steps + 1
    /\ UNCHANGED <<aug, handles, calls, anchored>>

\* block.find_directives(name, exclude)
FindDirectives(h, name, exclude) ==
    /\ steps < MaxSteps
    /\ IsBlock(h)
    /\ LET hits == FindDir(aug, name, PathOf(h), exclude) IN
       ret' = [op |-> "find_directives", h |-> h, name |-> name, exclude |-> exclude,
               hits |-> hits, nodes |-> FindDirectivesFrom(aug, hits)]
    /\ steps' = steps + 1
    /\ UNCHANGED <<aug, handles, calls, anchored>>

\* block.find_comments(comment)
FindComments(h, comment) ==
    /\ steps < MaxSteps
    /\ IsBlock(h)
    /\ LET comments == SessionFindComments(aug, comment, PathOf(h)) IN
       ret' = [op |-> "find_comments", h |-> h, comment |-> comment,
               nodes |-> [i \in 1..Len(comments) |-> CreateCommentnode(aug, comments[i])]]
    /\ steps' = steps + 1
    /\ UNCHANGED <<aug, handles, calls, anchored>>

SetParametersStep ==
    \E h \in 1..Len(handles), parameters \in ParamLists : SetParameters(h, parameters)

AddChildBlockStep ==
    \E h \in 1..Len(handles), name \in AddNames, parameters \in AddParams,
       position \in Positions : AddChildBlock(h, name, parameters, position)

AddChildDirectiveStep ==
    \E h \in 1..Len(handles), name \in AddNames, parameters \in AddParams,
       position \in {None, <<0>>} : AddChildDirective(h, name, parameters, position)

AddChildCommentStep ==
    \E h \in 1..Len(handles), comment \in CommentTexts, position \in {None, <<0>>} :
       AddChildComment(h, comment, position)

FindBlocksStep ==
    \E h \in 1..Len(handles), name \in FindNames, exclude \in BOOLEAN :
       FindBlocks(h, name, exclude)

FindDirectivesStep ==
    \E h \in 1..Len(handles), name \in DirectiveNames, exclude \in BOOLEAN :
       FindDirectives(h, name, exclude)

FindCommentsStep ==
    \E h \in 1..Len(handles), comment \in CommentTexts : FindComments(h, comment)

Next ==
    \/ SetParametersStep
    \/ AddChildBlockStep
    \/ AddChildDirectiveStep
    \/ AddChildCommentStep
    \/ FindBlocksStep
    \/ FindDirectivesStep
    \/ FindCommentsStep

Spec == Init /\ [][Next]_vars

-----------------------------------------------------------------------------
(* Properties *)

\* the children of the engine node at `path`
KidsAt(t, path) == NodeAt(t, Locate(t, path)).kids

\* the values of the arg children of the engine node at `path`, read off the tree
ArgValues(t, path) ==
    LET args == SelectSeq(KidsAt(t, path), LAMBDA n : n.label = ArgLabel) IN
    [i \in 1..Len(args) |-> args[i].value]

\* C1: after set_parameters(P) the node's parameters read back exactly P, in
\* order, and the engine holds exactly |P| arg children under the node's path,
\* indexed 1..|P| (none when P is empty), whatever list was there before.
C1_SetParametersReadsBack ==
    ret.op = "set_parameters" =>
        /\ Parameters(aug, handles[ret.h]) = ret.parameters
        /\ ArgValues(aug, ret.path) = ret.parameters
        /\ AugMatchLabel(aug, ret.path, ArgLabel)
             = [i \in 1..Len(ret.parameters) |-> Append(ret.path, Step(ArgLabel, i))]

\* a list of one parameter has replaced a longer, different one
C1_Witness ==
    /\ ret.op = "set_parameters"
    /\ Len(ret.orig) = 2
    /\ Len(ret.parameters) = 1
    /\ ret.parameters[1] # ret.orig[1]

\* C2: on a block with n >= 1 children the resolved anchor is the first child
\* with before=true for position 0, the last child with before=false for an
\* unset position or one >= n, and the child at 1-based index `position` with
\* before=false for 0 < position < n.
C2_AnchorResolution ==
    (ret.op = "add_child_block" /\ Len(ret.prekids) >= 1) =>
        LET n == Len(ret.prekids)
            anchor == StepPos(ret.prekids, LastOf(ret.insert_path))
        IN  /\ FrontOf(ret.insert_path) = ret.path
            /\ IF ret.position = <<0>>
               THEN /\ ret.insert_path = KidPath(ret.path, ret.prekids, 1)
                    /\ anchor = 1
                    /\ ret.before
               ELSE IF ret.position = None \/ ret.position[1] >= n
               THEN anchor = n /\ ~ret.before
               ELSE anchor = ret.position[1] /\ ~ret.before

\* an insertion strictly inside the children: 0 < position < n
C2_Witness ==
    /\ ret.op = "add_child_block"
    /\ ret.position = <<1>>
    /\ Len(ret.prekids) >= 3
    /\ ~ret.before

SeqRange(q) == {q[i] : i \in 1..Len(q)}

\* the paths below the registered roots
PathsUnderRoots(t) ==
    UNION {SeqRange(AugMatchDescendants(t, ParserPaths[r])) : r \in 1..Len(ParserPaths)}

\* the engine nodes whose label is `name` in some casing
Casings(t, name) ==
    {p \in PathsUnderRoots(t) : LowerStr(LastOf(p).label) = LowerStr(name)}

ReturnedPaths(nodes) == [i \in 1..Len(nodes) |-> nodes[i].metadata.augeaspath]

\* each returned block node is named by the engine node's own label
OwnLabels(t, nodes) ==
    \A i \in 1..Len(nodes) :
       /\ Exists(t, nodes[i].metadata.augeaspath)
       /\ nodes[i].name = NodeAt(t, Locate(t, nodes[i].metadata.augeaspath)).label

\* C3 as stated: find_blocks called with any casing of a name returns a node
\* for every block below a registered root whose label is a casing of that
\* name, each named by its own label.
C3_AllCasingsFound ==
    ret.op = "find_blocks" =>
        /\ \A p \in Casings(aug, ret.name) :
              \E i \in 1..Len(ret.nodes) : ret.nodes[i].metadata.augeaspath = p
        /\ OwnLabels(aug, ret.nodes)

\* C3 amended: find_blocks returns a node for every such block when called
\* with exclude=false, and with exclude=true (the default) for every one the
\* session's exclusion predicate keeps; each is named by its own label.
C3_AllCasingsFoundUnlessExcluded ==
    ret.op = "find_blocks" =>
        /\ \A p \in Casings(aug, ret.name) :
              (ret.exclude => ~Excluded(p)) =>
                 \E i \in 1..Len(ret.nodes) : ret.nodes[i].metadata.augeaspath = p
        /\ OwnLabels(aug, ret.nodes)

\* a search for "block" has returned Block, block and BLOCK, each under its own name
C3_Witness ==
    /\ ret.op = "find_blocks"
    /\ ret.name = <<"b", "l", "o", "c", "k">>
    /\ \A c \in {<<"B", "l", "o", "c", "k">>, <<"b", "l", "o", "c", "k">>,
                 <<"B", "L", "O", "C", "K">>} :
          \E i \in 1..Len(ret.nodes) : ret.nodes[i].name = c

\* the directive a hit belongs to: the hit without its trailing /arg[n]
OwnDirective(hit) == IF LastOf(hit).label = ArgLabel THEN FrontOf(hit) ELSE hit

\* C4: find_directives returns exactly one node per distinct matching
\* directive: no two nodes share a path, each node's path is the directive's
\* own path (the hit without its trailing /arg[n]), in order of first hit.
C4_OneNodePerDirective ==
    ret.op = "find_directives" =>
        ReturnedPaths(ret.nodes)
          = Dedup([i \in 1..Len(ret.hits) |-> OwnDirective(ret.hits[i])])

\* the node find_blocks builds for B's path is the node _create_blocknode makes
\* from that path; it equals B under __eq__ exactly when the fresh node does
C5_Found(paths, exclude) ==
    LET fresh == CreateBlocknode(ret.node.metadata.augeaspath) IN
    \E found \in SeqRange(FindBlocksFrom(paths, exclude)) :
       /\ found.metadata = ret.node.metadata
       /\ found = fresh

\* C5 as stated: after add_child_block(name, ...) on a block with at least one
\* child returns B, find_blocks(name) returns a node equal to B and to a block
\* node freshly made from B's path.
C5_RoundTrip ==
    (ret.op = "add_child_block" /\ Len(ret.prekids) >= 1) =>
        /\ ~ret.failed
        /\ BlockEq(aug, CreateBlocknode(ret.node.metadata.augeaspath), ret.node)
        /\ \A paths \in AugFindBlocks(aug, ret.name, anchored) :
              C5_Found(paths, TRUE)

\* C5 amended: the round trip holds for find_blocks(name, exclude=false), and
\* for the default exclude=true when the session's exclusion predicate keeps
\* the new block's path.
C5_RoundTripUnlessExcluded ==
    (ret.op = "add_child_block" /\ Len(ret.prekids) >= 1) =>
        /\ ~ret.failed
        /\ BlockEq(aug, CreateBlocknode(ret.node.metadata.augeaspath), ret.node)
        /\ \A exclude \in BOOLEAN, paths \in AugFindBlocks(aug, ret.name, anchored) :
              (exclude => ~Excluded(ret.resulting_path)) => C5_Found(paths, exclude)

\* a block with parameters has been added next to a sibling of the same label
C5_Witness ==
    /\ ret.op = "add_child_block"
    /\ ~ret.failed
    /\ ret.parameters # <<>>
    /\ ret.resulting_path = Append(ConfPath, Step(<<"B", "l", "o", "c", "k">>, 2))

\* C6: a parameters read on any node bound to the path that set_parameters(P)
\* was just called on returns P, and every node's parameters are the engine's
\* current arg children at its path.
C6_FreshAcrossHandles ==
    /\ ret.op = "set_parameters" =>
          \A h2 \in 1..Len(handles) :
             PathOf(h2) = ret.path => Parameters(aug, handles[h2]) = ret.parameters
    /\ \A h \in 1..Len(handles) :
          Parameters(aug, handles[h]) = ArgValues(aug, PathOf(h))

\* the first of two nodes bound to one path has rewritten both parameters
C6_Witness ==
    /\ ret.op = "set_parameters"
    /\ ret.h = 1
    /\ Len(handles) = 2
    /\ PathOf(2) = PathOf(1)
    /\ ret.orig = <<X, Y>>
    /\ Parameters(aug, handles[2]) = <<Y, X>>

Min(a, b) == IF a <= b THEN a ELSE b

\* C7: on a block with n >= 1 children, the path name[counter] computed before
\* the insertion addresses the new node afterwards: the new node is the child
\* at 0-based position min(position, n) (n when unset), the other children
\* keep their order, counter is 1 + the number of children before that place
\* whose label is exactly `name`, and given parameters read back.
C7_ResultingPathIsNewNode ==
    (ret.op = "add_child_block" /\ Len(ret.prekids) >= 1) =>
        LET n == Len(ret.prekids)
            at == IF ret.position = None THEN n ELSE Min(ret.position[1], n)
            kids == KidsAt(aug, ret.path)
            same == {i \in 1..at : ret.prekids[i].label = ret.name}
        IN  /\ ~ret.failed
            /\ Len(kids) = n + 1
            /\ ret.resulting_path = Append(ret.path, Step(ret.name, 1 + Cardinality(same)))
            /\ Locate(aug, ret.resulting_path) = Locate(aug, ret.path) \o <<at + 1>>
            /\ kids[at + 1] = Node(ret.name, <<>>, Args(ret.parameters))
            /\ SubSeq(kids, 1, at) \o SubSeq(kids, at + 2, n + 1) = ret.prekids
            /\ AugGetParams(aug, ret.resulting_path) = ret.parameters
            /\ ret.node.metadata.augeaspath = ret.resulting_path

\* a block was inserted before an existing sibling of the same label
C7_Witness ==
    /\ ret.op = "add_child_block"
    /\ ret.position = <<2>>
    /\ ret.parameters # <<>>
    /\ ret.resulting_path = Append(ConfPath, Step(<<"B", "l", "o", "c", "k">>, 1))
    /\ Exists(aug, Append(ConfPath, Step(<<"B", "l", "o", "c", "k">>, 2)))

\* C8: find_blocks returns only nodes whose last path segment, without its
\* index and case-folded, equals the name case-folded; a label that merely
\* contains the name is filtered out.
C8_OnlyExactLabels ==
    ret.op = "find_blocks" =>
        \A i \in 1..Len(ret.nodes) :
           LowerStr(AugGetName(ret.nodes[i].metadata.augeaspath)) = LowerStr(ret.name)

\* what find_blocks keeps of a listing of blk_paths
Kept(paths, exclude) == IF exclude THEN ExcludeDirs(paths) ELSE paths

\* C9 as stated: find_blocks returns its nodes in the order the engine's match
\* returned their paths, root after root, and no path twice.
C9_DocumentOrder ==
    ret.op = "find_blocks" =>
        ReturnedPaths(ret.nodes)
          = Kept(Dedup(AllRootBlocks(aug, ret.name, anchored)), ret.exclude)

\* C9 amended: find_blocks returns every kept path exactly once, a path found
\* under two roots included, in no fixed order.
C9_EachPathOnce ==
    ret.op = "find_blocks" =>
        LET got == ReturnedPaths(ret.nodes)
            all == Kept(AllRootBlocks(aug, ret.name, anchored), ret.exclude)
        IN  /\ SeqRange(got) = SeqRange(all)
            /\ \A i, j \in 1..Len(got) : got[i] = got[j] => i = j

\* a block that lies below both registered roots is among several returned
C9_Witness ==
    /\ ret.op = "find_blocks"
    /\ Len(ret.nodes) >= 3
    /\ \E i \in 1..Len(ret.nodes) :
          ret.nodes[i].metadata.augeaspath
            = Append(ArgusConfPath, Step(<<"b", "l", "o", "c", "k">>, 1))

ChildrenOf(hs, h) == IF hs[h].kind = "block" THEN hs[h].children ELSE <<>>

\* C10: add_child_directive and add_child_comment leave the engine tree as it
\* is and append exactly one node, whose ancestor is the block called, to the
\* end of that block's children buffer; every other operation leaves the
\* buffers as they are; so a buffer's length is the number of those calls.
C10_ChildrenBuffer ==
    /\ [][ IF ret'.op \in {"add_child_directive", "add_child_comment"}
           THEN /\ aug' = aug
                /\ ChildrenOf(handles', ret'.h)
                     = Append(ChildrenOf(handles, ret'.h), ret'.node)
                /\ ret'.node.ancestor = <<ret'.h>>
                /\ \A h \in 1..Len(handles) :
                      h # ret'.h => ChildrenOf(handles', h) = ChildrenOf(handles, h)
           ELSE \A h \in 1..Len(handles) :
                   ChildrenOf(handles', h) = ChildrenOf(handles, h) ]_vars
    /\ [](\A h \in 1..Len(handles) : Len(ChildrenOf(handles, h)) = calls[h])

\* a buffer holds a directive node and then a comment node
C10_Witness ==
    \E h \in 1..Len(handles) :
       /\ Len(ChildrenOf(handles, h)) = 2
       /\ handles[h].children[1].kind = "directive"
       /\ handles[h].children[2].kind = "comment"
       /\ calls[h] = 2

\* C11 as stated: add_child_block(name) on a block that has no children, for
\* any position (unset and 0 included), completes without an engine failure
\* and leaves the block with exactly one child, addressed by thisPath/name[1];
\* the engine's insert fails when its anchor path selects no node.
C11_FirstChildAdded ==
    (ret.op = "add_child_block" /\ ret.prekids = <<>>) =>
        /\ ~ret.failed
        /\ Len(KidsAt(aug, ret.path)) = 1
        /\ AugMatchStar(aug, ret.path) = <<Append(ret.path, Step(ret.name, 1))>>

====
